---- MODULE Spec2Model ----
(***************************************************************************)
(* A model of src/weather_dashboard.py: the WeatherDashboard class (table  *)
(* provisioning, the two fetches, the object-store and table-store         *)
(* writers, the daily-forecast selector) and the driver main().            *)
(*                                                                         *)
(* Time is scaled down.  The clock counts ticks, TicksPerSecond of them to *)
(* a second; epoch timestamps (dt) are seconds; a calendar day has         *)
(* SecondsPerDay seconds.  The local UTC offset tz is fixed per process.   *)
(***************************************************************************)
EXTENDS Integers, Sequences, FiniteSets, TLC

VARIABLES
    pc,               \* position of the caller (main, or a direct caller of a method)
    city_i,           \* main: index of the current city in cities
    weather_data,     \* main: result of fetch_weather (mutated by save_to_s3)
    forecast_data,    \* main: result of fetch_forecast
    daily_forecasts,  \* result of the last get_daily_forecasts
    success,          \* return value of the last writer call
    table,            \* self.table: the handle create_dynamo_table returned
    create_outcome,   \* how each create_dynamo_table call so far ended
    dynamo_tables,    \* DynamoDB: names of the tables that exist
    table_items,      \* DynamoDB: the items of table WeatherForecasts
    s3_objects,       \* S3: the objects of the bucket
    clock,            \* wall clock, in ticks
    tz,               \* local UTC offset, in seconds
    trace,            \* the calls made in this run, in order
    call              \* the last direct call of a writer: its arguments and the write calls it made

vars == <<pc, city_i, weather_data, forecast_data, daily_forecasts, success,
          table, create_outcome, dynamo_tables, table_items, s3_objects,
          clock, tz, trace, call>>

----------------------------------------------------------------------------
(* Bounds of the model *)

TicksPerSecond == 2
SecondsPerDay == 2
\* the forecast feeds of the selector cover the days 0 .. MaxFeedDay
MaxFeedDay == 6

TzOffsets == {0, 1}

----------------------------------------------------------------------------
(* Python values *)

None == [kind |-> "None"]
EmptyDict == [kind |-> "dict", empty |-> TRUE]

\* `not x` for a value x: None and the empty dict are falsy
IsNone(x) == x.kind = "None"
Falsy(x) == x.kind = "None" \/ (x.kind = "dict" /\ x.empty)

\* the body of an API response: main.{temp, feels_like, humidity}, weather[0].description
CondSeq ==
    << [main |-> [temp |-> 552, feels_like |-> 521, humidity |-> 80],
        weather |-> << [description |-> "light rain"] >>],
       [main |-> [temp |-> 725, feels_like |-> 730, humidity |-> 41],
        weather |-> << [description |-> "clear sky"] >>] >>

\* one 3-hour sample of the forecast feed
Sample(dt, c) == [dt |-> dt, main |-> c.main, weather |-> c.weather]

ForecastDict(list) == [kind |-> "dict", empty |-> FALSE, list |-> list]

WeatherDict(c) == [kind |-> "dict", empty |-> FALSE, main |-> c.main, weather |-> c.weather]

\* d[k] = v on a dict
SetItem(d, k, v) ==
    [x \in DOMAIN d \cup {k} |->
        IF x = k THEN v ELSE IF x = "empty" THEN FALSE ELSE d[x]]

\* an exception leaving the function that was called
Raised == [kind |-> "raise"]

NoCall == [op |-> "none", city |-> "", payload |-> None, puts |-> 0, stored |-> 0]

----------------------------------------------------------------------------
(* Calendar: datetime.now(), datetime.fromtimestamp(..).date() *)

\* datetime.now(): the local wall time, with its sub-second part, in ticks
now == clock + tz * TicksPerSecond

\* datetime.fromtimestamp(dt): epoch seconds to a local time, in ticks
fromtimestamp(dt) == (dt + tz) * TicksPerSecond

\* d.date(): the calendar date of a local time, as a day number
date(d) == d \div (TicksPerSecond * SecondsPerDay)

\* d.strftime('%Y%m%d-%H%M%S'): a local time to the second
strftime(d) == d \div TicksPerSecond

----------------------------------------------------------------------------
(* get_daily_forecasts *)

MaxDaily == 5

DailyEntry(forecast_date, forecast) ==
    [date |-> forecast_date,
     temp |-> forecast.main.temp,
     feels_like |-> forecast.main.feels_like,
     humidity |-> forecast.main.humidity,
     description |-> forecast.weather[1].description]

\* mutant: today's samples are not excluded
TakesSample_today(forecast_date, current_date, acc) ==
    /\ forecast_date >= current_date /\ Len(acc) < MaxDaily
    /\ (acc = <<>> \/ forecast_date > acc[Len(acc)].date)

\* mutant: every future sample is taken, not one per date
TakesSample_all(forecast_date, current_date, acc) ==
    forecast_date > current_date /\ Len(acc) < MaxDaily

\* the two conditions under which a sample is appended
TakesSample(forecast_date, current_date, acc) ==
    /\ forecast_date > current_date /\ Len(acc) < MaxDaily
    /\ (acc = <<>> \/ forecast_date > acc[Len(acc)].date)

RECURSIVE SelectFrom(_, _, _, _)
SelectFrom(list, i, acc, current_date) ==
    IF i > Len(list) THEN acc
    ELSE LET forecast == list[i]
             forecast_date == date(fromtimestamp(forecast.dt))
         IN  IF TakesSample(forecast_date, current_date, acc)
             THEN SelectFrom(list, i + 1,
                             Append(acc, DailyEntry(forecast_date, forecast)),
                             current_date)
             ELSE SelectFrom(list, i + 1, acc, current_date)

get_daily_forecasts(fd) == SelectFrom(fd.list, 1, <<>>, date(now))

----------------------------------------------------------------------------
(* The selector called on its own, on every ascending feed of the bounds *)

\* the feed with cnt[d] samples on day d, at the first seconds of the day;
\* the samples' conditions alternate, so that two samples of a day differ
RECURSIVE FeedFrom(_, _, _)
FeedFrom(cnt, d, acc) ==
    IF d > MaxFeedDay THEN acc
    ELSE LET n == Len(acc)
             add == [i \in 1..cnt[d] |->
                        Sample(d * SecondsPerDay + (i - 1),
                               CondSeq[((n + i) % 2) + 1])]
         IN  FeedFrom(cnt, d + 1, acc \o add)

\* how many samples a day of the feed can have
SampleCounts == {0, 1, 2}

SelFeeds ==
    { ForecastDict(FeedFrom(cnt, 0, <<>>)) :
        cnt \in [0..MaxFeedDay -> SampleCounts] }

Idle ==
    /\ city_i = 0 /\ weather_data = None /\ success = FALSE
    /\ table = None /\ create_outcome = <<>> /\ dynamo_tables = {}
    /\ table_items = {} /\ s3_objects = {} /\ trace = <<>>
    /\ call = NoCall

InitSel ==
    /\ Idle
    /\ pc = "call"
    /\ forecast_data \in SelFeeds
    /\ daily_forecasts = <<>>
    /\ tz \in TzOffsets
    /\ clock \in { s * TicksPerSecond : s \in 0..SecondsPerDay }

CallGetDailyForecasts ==
    /\ pc = "call"
    /\ daily_forecasts' = get_daily_forecasts(forecast_data)
    /\ pc' = "returned"
    /\ UNCHANGED <<city_i, weather_data, forecast_data, success, table,
                   create_outcome, dynamo_tables, table_items, s3_objects,
                   clock, tz, trace, call>>

NextSel == CallGetDailyForecasts

SpecSel == InitSel /\ [][NextSel]_vars

----------------------------------------------------------------------------
(* Daily-forecast selector: claims C1 and C2 *)

\* the local calendar date of the i-th sample of the feed
SampleDate(i) == date(fromtimestamp(forecast_data.list[i].dt))

FeedDates == { SampleDate(i) : i \in 1..Len(forecast_data.list) }

FutureDates == { d \in FeedDates : d > date(now) }

\* the index of the first sample of date d in feed order
FirstOfDate(d) ==
    CHOOSE i \in 1..Len(forecast_data.list) :
        /\ SampleDate(i) = d
        /\ \A j \in 1..(i - 1) : SampleDate(j) # d

\* C1: for every forecast feed sorted by ascending timestamp, the list
\* get_daily_forecasts returns has strictly increasing 'date' values from one
\* entry to the next and at most 5 entries.
C1_DatesIncreasingAtMostFive ==
    pc = "returned" =>
        /\ Len(daily_forecasts) <= 5
        /\ \A i \in 1..(Len(daily_forecasts) - 1) :
               daily_forecasts[i].date < daily_forecasts[i + 1].date

\* a feed with several samples on one future date and more than five future
\* dates has been reduced to five entries
C1_Witness ==
    /\ pc = "returned"
    /\ Len(daily_forecasts) = 5
    /\ Cardinality(FutureDates) > 5
    /\ \E i \in 2..Len(forecast_data.list) :
           SampleDate(i) = SampleDate(i - 1) /\ SampleDate(i) > date(now)

\* C2: given an ascending feed with samples for today and for 6 distinct
\* future calendar days, get_daily_forecasts returns exactly 5 entries, none
\* with today's date, covering the 5 earliest future dates one entry each,
\* each entry carrying the temp, feels_like, humidity and description of the
\* first sample of its date in feed order.
C2_FiveEarliestFirstSamples ==
    (/\ pc = "returned"
     /\ date(now) \in FeedDates
     /\ Cardinality(FutureDates) >= 6)
    =>
        /\ Len(daily_forecasts) = 5
        /\ \A k \in 1..Len(daily_forecasts) : daily_forecasts[k].date # date(now)
        /\ { daily_forecasts[k].date : k \in 1..Len(daily_forecasts) }
             = { d \in FutureDates :
                   Cardinality({ e \in FutureDates : e < d }) < 5 }
        /\ \A k \in 1..Len(daily_forecasts) :
             LET first == forecast_data.list[FirstOfDate(daily_forecasts[k].date)]
             IN  /\ daily_forecasts[k].temp = first.main.temp
                 /\ daily_forecasts[k].feels_like = first.main.feels_like
                 /\ daily_forecasts[k].humidity = first.main.humidity
                 /\ daily_forecasts[k].description = first.weather[1].description

\* today and six future days are in the feed, today and every selected date
\* with two differing samples, and the selection has been made
C2_Witness ==
    /\ pc = "returned"
    /\ date(now) \in FeedDates
    /\ Cardinality(FutureDates) >= 6
    /\ Len(daily_forecasts) = 5
    /\ \E i \in 2..Len(forecast_data.list) :
           SampleDate(i) = date(now) /\ SampleDate(i - 1) = date(now)
    /\ \A k \in 1..Len(daily_forecasts) :
           \E i \in 2..Len(forecast_data.list) :
               /\ SampleDate(i) = daily_forecasts[k].date
               /\ SampleDate(i - 1) = daily_forecasts[k].date
               /\ forecast_data.list[i].main # forecast_data.list[i - 1].main

----------------------------------------------------------------------------
(* create_dynamo_table *)

table_name == "WeatherForecasts"

\* dynamodb.Table(name): a handle; no call is made
Table(name) == [kind |-> "Table", name |-> name]

\* how dynamodb.create_table and the table_exists waiter can end, given the
\* tables that exist
CreateOutcomes(tables) ==
    (IF table_name \in tables THEN {"ResourceInUseException"}
                               ELSE {"created", "WaiterError"})
        \cup {"AccessDeniedException"}

\* mutant: an existing table is an error like any other
OnClientError_raise(code) == Raised

\* the except ClientError clause
OnClientError(code) ==
    IF code = "ResourceInUseException" THEN Table(table_name) ELSE Raised

\* the value returned (or Raised) and the tables that exist afterwards
create_dynamo_table(tables, outcome) ==
    IF outcome = "created"
    THEN [table |-> Table(table_name), tables |-> tables \cup {table_name}]
    ELSE IF outcome = "WaiterError"
    \* the table is being created; WaiterError is no ClientError
    THEN [table |-> Raised, tables |-> tables \cup {table_name}]
    ELSE [table |-> OnClientError(outcome), tables |-> tables]

----------------------------------------------------------------------------
(* fetch_weather, fetch_forecast *)

RequestException == [kind |-> "RequestException"]

\* mutant: the request's failure leaves the function
fetch_weather_raise(response) ==
    IF response = RequestException THEN Raised ELSE response

\* response: what requests.get, raise_for_status and json() produce
fetch_weather(response) ==
    IF response = RequestException THEN None ELSE response

fetch_forecast(response) ==
    IF response = RequestException THEN None ELSE response

----------------------------------------------------------------------------
(* save_to_s3 *)

S3Key(city, timestamp) ==
    [prefix |-> "weather-data", city |-> city, timestamp |-> timestamp,
     suffix |-> ".json"]

\* mutant: the key does not name the city
S3FileName_nocity(city, timestamp) == S3Key("", timestamp)

\* f"weather-data/{city}/{timestamp}.json"
S3FileName(city, timestamp) == S3Key(city, timestamp)

\* json.dumps
JsonDumps(d) == [json |-> d]

\* mutant: the timestamp field is not injected
S3Body_plain(wd, timestamp) == JsonDumps(wd)

\* weather_data['timestamp'] = timestamp; Body=json.dumps(weather_data)
S3Body(wd, timestamp) == JsonDumps(SetItem(wd, "timestamp", timestamp))

\* s3_client.put_object: the object under Key is created or replaced
PutObject(objects, key, body) ==
    { o \in objects : o.Key # key } \cup { [Key |-> key, Body |-> body] }

\* mutant: only None is refused
NoPayload_none(data) == IsNone(data)

\* `if not weather_data`, `if not forecast_data`
NoPayload(data) == Falsy(data)

\* accept: whether put_object succeeds.  ret: the return value; objects: the
\* bucket afterwards; weather_data: the caller's dict afterwards; puts: the
\* put_object calls made
save_to_s3(objects, wd, city, accept) ==
    IF NoPayload(wd)
    THEN [ret |-> FALSE, objects |-> objects, weather_data |-> wd, puts |-> 0,
          key |-> None, body |-> None]
    ELSE LET timestamp == strftime(now)
             file_name == S3FileName(city, timestamp)
             body == S3Body(wd, timestamp)
         IN  [ret |-> accept,
              objects |-> IF accept THEN PutObject(objects, file_name, body)
                                    ELSE objects,
              weather_data |-> SetItem(wd, "timestamp", timestamp),
              puts |-> 1, key |-> file_name, body |-> body]

----------------------------------------------------------------------------
(* save_forecast_to_dynamodb *)

\* Decimal(str(x)): the exact decimal of the number's shortest representation
Decimal(x) == [decimal |-> x]

\* mutant: the key is built from the temperature, not from dt
CityDate_temp(city, forecast) == <<city, "#", forecast.main.temp>>

\* f"{city}#{forecast['dt']}"
CityDate(city, forecast) == <<city, "#", forecast.dt>>

\* a sample whose fields the item needs are all there
WellFormed(forecast) == {"dt", "main", "weather"} \subseteq DOMAIN forecast

Item(city, forecast) ==
    [CityDate |-> CityDate(city, forecast),
     City |-> city,
     Timestamp |-> forecast.dt,
     Temperature |-> Decimal(forecast.main.temp),
     FeelsLike |-> Decimal(forecast.main.feels_like),
     Humidity |-> Decimal(forecast.main.humidity),
     Description |-> forecast.weather[1].description]

\* batch.put_item, once flushed: the item under the key is created or replaced
PutItem(items, item) ==
    { x \in items : x.CityDate # item.CityDate } \cup {item}

\* the first n samples of the list, put in order
RECURSIVE PutItems(_, _, _, _)
PutItems(items, city, list, n) ==
    IF n = 0 THEN items
    ELSE PutItem(PutItems(items, city, list, n - 1), Item(city, list[n]))

\* the number of samples before the first one whose item cannot be built
RECURSIVE Buildable(_, _)
Buildable(list, i) ==
    IF i > Len(list) \/ ~WellFormed(list[i]) THEN i - 1
    ELSE Buildable(list, i + 1)

\* mutant: a sample that cannot be built or written is skipped silently
BatchResult_silent(total, built, stored) == TRUE

\* the with block ends normally (return True) only when every sample was
\* built, put and flushed; any exception is caught (return False)
BatchResult(total, built, stored) == built = total /\ stored = built

\* stored: how many of the put items the table accepted before it raised
\* (all of them when it did not).  ret: the return value; items: the table
\* afterwards; puts: the batch.put_item calls made
save_forecast_to_dynamodb(items, fd, city, stored) ==
    IF NoPayload(fd)
    THEN [ret |-> FALSE, items |-> items, puts |-> 0, stored |-> 0]
    ELSE IF "list" \notin DOMAIN fd
    \* KeyError, caught
    THEN [ret |-> FALSE, items |-> items, puts |-> 0, stored |-> 0]
    ELSE LET built == Buildable(fd.list, 1)
             n == IF stored < built THEN stored ELSE built
         IN  [ret |-> BatchResult(Len(fd.list), built, n),
              items |-> PutItems(items, city, fd.list, n),
              puts |-> built, stored |-> n]

----------------------------------------------------------------------------
(* main *)

cities == <<"Philadelphia", "Seattle", "New York">>

\* bounds of the runs of main
MaxClock == 2

\* how the two requests to the weather provider can end: a transport or
\* non-2xx failure, or the decoded body
WeatherResponses == {RequestException, WeatherDict(CondSeq[1])}

ForecastResponses ==
    {RequestException,
     ForecastDict(<< Sample(SecondsPerDay, CondSeq[1]),
                     Sample(SecondsPerDay + 1, CondSeq[2]) >>)}

\* one entry of the trace: a call main made, whether its result was truthy,
\* and for save_to_s3 the key and body of the put
Ev(city, step, ok, data, key, body) ==
    [city |-> city, step |-> step, ok |-> ok, data |-> data, key |-> key,
     body |-> body]

city == cities[city_i]

\* mutant: a failed table write skips the selection
AfterSaveForecast_skip(ok) == IF ok THEN "daily" ELSE "next"

\* the selection follows the table write whatever it returned
AfterSaveForecast(ok) == "daily"

\* the next city of the loop, or the end of main
NextCity ==
    IF city_i < Len(cities)
    THEN pc' = "fetch_weather" /\ city_i' = city_i + 1
    ELSE pc' = "done" /\ city_i' = city_i

Init ==
    /\ pc = "start" /\ city_i = 0
    /\ weather_data = None /\ forecast_data = None /\ daily_forecasts = <<>>
    /\ success = FALSE /\ table = None /\ create_outcome = <<>>
    /\ dynamo_tables \in SUBSET {table_name}
    /\ table_items = {} /\ s3_objects = {}
    /\ clock = 0 /\ tz \in TzOffsets
    /\ trace = <<>> /\ call = NoCall

\* dashboard = WeatherDashboard()
Construct ==
    /\ pc = "start"
    /\ \E outcome \in CreateOutcomes(dynamo_tables) :
         LET r == create_dynamo_table(dynamo_tables, outcome)
         IN  /\ create_outcome' = Append(create_outcome,
                                         [outcome |-> outcome, table |-> r.table])
             /\ dynamo_tables' = r.tables
             /\ IF r.table = Raised
                THEN pc' = "aborted" /\ UNCHANGED <<table, city_i>>
                ELSE pc' = "fetch_weather" /\ table' = r.table /\ city_i' = 1
    /\ UNCHANGED <<weather_data, forecast_data, daily_forecasts, success,
                   table_items, s3_objects, clock, tz, trace, call>>

\* weather_data = dashboard.fetch_weather(city); if weather_data: ...
FetchWeather ==
    /\ pc = "fetch_weather"
    /\ \E response \in WeatherResponses :
         LET r == fetch_weather(response)
         IN  IF r = Raised
             THEN pc' = "crashed" /\ UNCHANGED <<weather_data, trace>>
             ELSE /\ weather_data' = r
                  /\ trace' = Append(trace,
                        Ev(city, "fetch_weather", ~Falsy(r), r, None, None))
                  /\ pc' = IF Falsy(r) THEN "fetch_forecast" ELSE "save_s3"
    /\ UNCHANGED <<city_i, forecast_data, daily_forecasts, success, table,
                   create_outcome, dynamo_tables, table_items, s3_objects,
                   clock, tz, call>>

\* success = dashboard.save_to_s3(weather_data, city)
SaveToS3 ==
    /\ pc = "save_s3"
    /\ \E accept \in BOOLEAN :
         LET r == save_to_s3(s3_objects, weather_data, city, accept)
         IN  /\ success' = r.ret
             /\ s3_objects' = r.objects
             /\ weather_data' = r.weather_data
             /\ trace' = Append(trace,
                   Ev(city, "save_to_s3", r.ret, weather_data, r.key, r.body))
    /\ pc' = "fetch_forecast"
    /\ UNCHANGED <<city_i, forecast_data, daily_forecasts, table,
                   create_outcome, dynamo_tables, table_items, clock, tz, call>>

\* forecast_data = dashboard.fetch_forecast(city); if forecast_data: ... else: ...
FetchForecast ==
    /\ pc = "fetch_forecast"
    /\ \E response \in ForecastResponses :
         LET r == fetch_forecast(response)
         IN  IF r = Raised
             THEN pc' = "crashed" /\ UNCHANGED <<forecast_data, trace, city_i>>
             ELSE /\ forecast_data' = r
                  /\ trace' = Append(trace,
                        Ev(city, "fetch_forecast", ~Falsy(r), r, None, None))
                  /\ IF Falsy(r) THEN NextCity
                     ELSE pc' = "save_dynamo" /\ city_i' = city_i
    /\ UNCHANGED <<weather_data, daily_forecasts, success, table,
                   create_outcome, dynamo_tables, table_items, s3_objects,
                   clock, tz, call>>

\* success = dashboard.save_forecast_to_dynamodb(forecast_data, city)
SaveForecast ==
    /\ pc = "save_dynamo"
    /\ \E stored \in 0..Len(forecast_data.list) :
         LET r == save_forecast_to_dynamodb(table_items, forecast_data, city,
                                            stored)
         IN  /\ success' = r.ret
             /\ table_items' = r.items
             /\ trace' = Append(trace,
                   Ev(city, "save_forecast_to_dynamodb", r.ret, forecast_data,
                      None, None))
             /\ IF AfterSaveForecast(r.ret) = "daily"
                THEN pc' = "daily" /\ city_i' = city_i
                ELSE NextCity
    /\ UNCHANGED <<weather_data, forecast_data, daily_forecasts, table,
                   create_outcome, dynamo_tables, s3_objects, clock, tz, call>>

\* daily_forecasts = dashboard.get_daily_forecasts(forecast_data)
DailyForecasts ==
    /\ pc = "daily"
    /\ daily_forecasts' = get_daily_forecasts(forecast_data)
    /\ trace' = Append(trace,
          Ev(city, "get_daily_forecasts", TRUE, forecast_data, None, None))
    /\ NextCity
    /\ UNCHANGED <<weather_data, forecast_data, success, table,
                   create_outcome, dynamo_tables, table_items, s3_objects,
                   clock, tz, call>>

\* time passes
Tick ==
    /\ clock < MaxClock
    /\ clock' = clock + 1
    /\ UNCHANGED <<pc, city_i, weather_data, forecast_data, daily_forecasts,
                   success, table, create_outcome, dynamo_tables, table_items,
                   s3_objects, tz, trace, call>>

Step ==
    \/ Construct
    \/ FetchWeather
    \/ SaveToS3
    \/ FetchForecast
    \/ SaveForecast
    \/ DailyForecasts

Next == Step \/ Tick

Spec == Init /\ [][Next]_vars

\* main runs on: no step of it waits for anything but its own calls
LiveSpec == Spec /\ WF_vars(Step)

----------------------------------------------------------------------------
(* The driver loop: claims C7 to C10 *)

\* the entries of the trace for one call of one city
Evs(c, step) ==
    { i \in DOMAIN trace : trace[i].city = c /\ trace[i].step = step }

\* the k-th city's iteration of the loop is over
Processed(k) == pc = "done" \/ (pc # "start" /\ pc # "aborted" /\ city_i > k)

StepNo(step) ==
    CASE step = "fetch_weather" -> 1
      [] step = "save_to_s3" -> 2
      [] step = "fetch_forecast" -> 3
      [] step = "save_forecast_to_dynamodb" -> 4
      [] step = "get_daily_forecasts" -> 5

CityNo(c) == CHOOSE k \in 1..Len(cities) : cities[k] = c

\* C7: once provisioning has succeeded, whatever network failures
\* (fetch_weather, fetch_forecast) and storage write failures (save_to_s3,
\* save_forecast_to_dynamodb) occur in any city, no error leaves the
\* component that produced it: main eventually has made both fetches for
\* every city of Philadelphia, Seattle, New York and has terminated.
C7_LoopReachesEveryCity ==
    (pc = "fetch_weather" /\ city_i = 1)
        ~> (/\ pc = "done"
            /\ \A c \in {"Philadelphia", "Seattle", "New York"} :
                   /\ Evs(c, "fetch_weather") # {}
                   /\ Evs(c, "fetch_forecast") # {})

\* main is done although a fetch of the first city failed on the network and
\* both writers failed in some city
C7_Witness ==
    /\ pc = "done"
    /\ \E i \in DOMAIN trace :
           /\ trace[i].city = "Philadelphia"
           /\ trace[i].step \in {"fetch_weather", "fetch_forecast"}
           /\ trace[i].data = None
    /\ \E i \in DOMAIN trace : trace[i].step = "save_to_s3" /\ ~trace[i].ok
    /\ \E i \in DOMAIN trace :
           trace[i].step = "save_forecast_to_dynamodb" /\ ~trace[i].ok
    /\ Evs("New York", "fetch_weather") # {}
    /\ Evs("New York", "fetch_forecast") # {}

\* the successful save_to_s3 calls of the run
GoodPuts == { i \in DOMAIN trace : trace[i].step = "save_to_s3" /\ trace[i].ok }

\* C8: object-store writes never collide within a run: no two successful
\* save_to_s3 calls of the run write to the same key
\* weather-data/{city}/{timestamp}.json, so no object written earlier in the
\* run is overwritten by a later put, also when two puts fall in one second.
C8_NoKeyCollisionInRun ==
    /\ \A i, j \in GoodPuts : i # j => trace[i].key # trace[j].key
    /\ \A i \in GoodPuts :
           [Key |-> trace[i].key, Body |-> trace[i].body] \in s3_objects

\* two cities were saved within the same second
C8_Witness ==
    \E i, j \in GoodPuts :
        /\ i < j
        /\ trace[i].key.timestamp = trace[j].key.timestamp
        /\ trace[i].city # trace[j].city

\* C9: for a city whose current-weather fetch returned a reading and whose
\* write the store accepted, the store received exactly one put for the city
\* in the run, under key weather-data/{city}/{timestamp}.json, and the stored
\* body is the reading plus a 'timestamp' field holding the key's timestamp.
C9_OnePutWithTimestamp ==
    \A k \in 1..Len(cities) :
        LET c == cities[k]
            puts == Evs(c, "save_to_s3")
        IN  /\ Cardinality(puts) <= 1
            /\ (Processed(k) /\ \E f \in Evs(c, "fetch_weather") : trace[f].ok)
                   => Cardinality(puts) = 1
            /\ \A i \in puts : trace[i].ok =>
                 \E f \in Evs(c, "fetch_weather") :
                   LET reading == trace[f].data
                       stored == trace[i].body.json
                   IN  /\ f < i /\ trace[f].ok
                       /\ trace[i].key.prefix = "weather-data"
                       /\ trace[i].key.city = c
                       /\ trace[i].key.suffix = ".json"
                       /\ trace[i].key.timestamp \in tz..strftime(now)
                       /\ DOMAIN stored = DOMAIN reading \cup {"timestamp"}
                       /\ \A x \in DOMAIN reading : stored[x] = reading[x]
                       /\ stored.timestamp = trace[i].key.timestamp
                       /\ Cardinality({ o \in s3_objects : o.Key.city = c }) = 1
                       /\ [Key |-> trace[i].key, Body |-> trace[i].body]
                              \in s3_objects

\* Seattle's reading was fetched and stored, and its iteration is over
C9_Witness ==
    /\ Processed(2)
    /\ \E f \in Evs("Seattle", "fetch_weather") : trace[f].ok
    /\ \E i \in Evs("Seattle", "save_to_s3") :
           trace[i].ok /\ trace[i].key.timestamp > 0

\* C10: within each city iteration the steps occur in the order fetch current
\* weather, object-store write, fetch forecast, table-store write,
\* daily-forecast selection, and the cities are processed in list order; the
\* object-store write is attempted only if the weather fetch returned data,
\* the table-store write and the selection only if the forecast fetch
\* returned data; a failed table-store write neither prevents the selection
\* nor removes the object already written for the city.
C10_StepOrderNoRollback ==
    /\ \A i \in 1..(Len(trace) - 1) :
           LET j == i + 1
           IN  \/ CityNo(trace[i].city) < CityNo(trace[j].city)
               \/ /\ trace[i].city = trace[j].city
                  /\ StepNo(trace[i].step) < StepNo(trace[j].step)
    /\ \A i \in DOMAIN trace :
           /\ trace[i].step = "save_to_s3" =>
                  \E f \in Evs(trace[i].city, "fetch_weather") : trace[f].ok
           /\ trace[i].step \in {"save_forecast_to_dynamodb", "get_daily_forecasts"} =>
                  \E f \in Evs(trace[i].city, "fetch_forecast") : trace[f].ok
    /\ \A k \in 1..Len(cities) :
           (Processed(k) /\ Evs(cities[k], "save_forecast_to_dynamodb") # {})
               => Evs(cities[k], "get_daily_forecasts") # {}
    /\ \A i \in GoodPuts :
           [Key |-> trace[i].key, Body |-> trace[i].body] \in s3_objects

\* a city's object was written, its table write failed, and the selection
\* was still made
C10_Witness ==
    \E k \in 1..Len(cities) :
        /\ Processed(k)
        /\ \E i \in Evs(cities[k], "save_to_s3") : trace[i].ok
        /\ \E i \in Evs(cities[k], "save_forecast_to_dynamodb") : ~trace[i].ok
        /\ Evs(cities[k], "get_daily_forecasts") # {}

----------------------------------------------------------------------------
(* The class used directly: dashboards are constructed, and the two writers *)
(* of a dashboard are called with any payload, in any order                 *)

\* bound on the WeatherDashboard objects constructed
MaxCreates == 2

ApiCities == {"Seattle", "New York"}

WeatherPayloads == {None, EmptyDict, WeatherDict(CondSeq[1])}

\* the third feed has a sample without 'main' and 'weather'
ForecastPayloads ==
    {None, EmptyDict,
     ForecastDict(<< Sample(0, CondSeq[1]), Sample(1, CondSeq[2]) >>),
     ForecastDict(<< Sample(0, CondSeq[2]) >>),
     ForecastDict(<< Sample(0, CondSeq[2]), [dt |-> 1], Sample(2, CondSeq[1]) >>)}

\* no dashboard has been constructed yet
InitNew ==
    /\ pc = "new" /\ city_i = 0
    /\ weather_data = None /\ forecast_data = None /\ daily_forecasts = <<>>
    /\ success = FALSE /\ table = None /\ create_outcome = <<>>
    /\ dynamo_tables \in SUBSET {table_name}
    /\ table_items = {} /\ s3_objects = {}
    /\ clock = 0 /\ tz \in TzOffsets
    /\ trace = <<>> /\ call = NoCall

\* WeatherDashboard(), called again and again: table is the handle held by
\* the newest dashboard
ApiConstruct ==
    /\ pc = "new"
    /\ Len(create_outcome) < MaxCreates
    /\ \E outcome \in CreateOutcomes(dynamo_tables) :
         LET r == create_dynamo_table(dynamo_tables, outcome)
         IN  /\ create_outcome' = Append(create_outcome,
                                         [outcome |-> outcome, table |-> r.table])
             /\ dynamo_tables' = r.tables
             /\ table' = IF r.table = Raised THEN table ELSE r.table
    /\ UNCHANGED <<pc, city_i, weather_data, forecast_data, daily_forecasts,
                   success, table_items, s3_objects, clock, tz, trace, call>>

\* a dashboard has been constructed and created the table
InitApi ==
    /\ pc = "api" /\ city_i = 0
    /\ weather_data = None /\ forecast_data = None /\ daily_forecasts = <<>>
    /\ success = FALSE /\ table = Table(table_name)
    /\ create_outcome = << [outcome |-> "created", table |-> Table(table_name)] >>
    /\ dynamo_tables = {table_name}
    /\ table_items = {} /\ s3_objects = {}
    /\ clock = 0 /\ tz \in TzOffsets
    /\ trace = <<>> /\ call = NoCall

\* dashboard.save_to_s3(wd, c)
ApiSaveToS3 ==
    /\ pc = "api" /\ table # None
    /\ \E wd \in WeatherPayloads, c \in ApiCities, accept \in BOOLEAN :
         LET r == save_to_s3(s3_objects, wd, c, accept)
         IN  /\ success' = r.ret
             /\ s3_objects' = r.objects
             /\ call' = [op |-> "save_to_s3", city |-> c, payload |-> wd,
                         puts |-> r.puts, stored |-> IF r.ret THEN 1 ELSE 0]
    /\ UNCHANGED <<pc, city_i, weather_data, forecast_data, daily_forecasts,
                   table, create_outcome, dynamo_tables, table_items, clock,
                   tz, trace>>

\* dashboard.save_forecast_to_dynamodb(fd, c)
ApiSaveForecast ==
    /\ pc = "api" /\ table # None
    /\ \E fd \in ForecastPayloads, c \in ApiCities :
         \E stored \in 0..(IF "list" \in DOMAIN fd THEN Len(fd.list) ELSE 0) :
           LET r == save_forecast_to_dynamodb(table_items, fd, c, stored)
           IN  /\ success' = r.ret
               /\ table_items' = r.items
               /\ call' = [op |-> "save_forecast_to_dynamodb", city |-> c,
                           payload |-> fd, puts |-> r.puts,
                           stored |-> r.stored]
    /\ UNCHANGED <<pc, city_i, weather_data, forecast_data, daily_forecasts,
                   table, create_outcome, dynamo_tables, s3_objects, clock,
                   tz, trace>>

NextApi == ApiSaveToS3 \/ ApiSaveForecast \/ Tick

SpecApi == InitApi /\ [][NextApi]_vars

\* provisioning: by main, or by a caller that constructs dashboards in sequence
SpecBoot == (Init \/ InitNew) /\ [][Next \/ ApiConstruct]_vars

----------------------------------------------------------------------------
(* The writers and the provisioning: claims C3 to C6 *)

\* C3: when save_to_s3 or save_forecast_to_dynamodb is called with an absent
\* (None) or empty payload, it returns False and makes no write call on the
\* store: no put_object, no batch put_item, and the store's contents are
\* unchanged.
C3_EmptyPayloadNoWrite ==
    [][ (/\ call'.op \in {"save_to_s3", "save_forecast_to_dynamodb"}
         /\ (call'.payload = None \/ call'.payload = EmptyDict))
        => (/\ success' = FALSE
            /\ call'.puts = 0
            /\ s3_objects' = s3_objects
            /\ table_items' = table_items) ]_vars

\* save_to_s3 was called with an empty dict on a bucket and a table that
\* hold data
C3_Witness ==
    /\ call.op = "save_to_s3" /\ call.payload = EmptyDict
    /\ success = FALSE
    /\ s3_objects # {} /\ table_items # {}

\* C4: the table-store write is an idempotent upsert keyed on
\* CityDate = city#dt: after any sequence of save_forecast_to_dynamodb calls
\* the table holds at most one record per (city, dt) pair, and writing the
\* same forecast for the same city a second time leaves the table exactly
\* as it was after the first write.
C4_IdempotentUpsert ==
    /\ [](\A a, b \in table_items :
              (a.City = b.City /\ a.Timestamp = b.Timestamp) => a = b)
    /\ [][ (/\ call.op = "save_forecast_to_dynamodb" /\ success
            /\ call'.op = "save_forecast_to_dynamodb"
            /\ call'.payload = call.payload /\ call'.city = call.city)
           => table_items' = table_items ]_vars

\* Seattle's sample of dt 0 was written again with other values after the
\* two-sample feed: the record of dt 0 was replaced, that of dt 1 stays
C4_Witness ==
    /\ call.op = "save_forecast_to_dynamodb" /\ success
    /\ call.city = "Seattle"
    /\ call.payload = ForecastDict(<< Sample(0, CondSeq[2]) >>)
    /\ \E it \in table_items :
           /\ it.City = "Seattle" /\ it.Timestamp = 0
           /\ it.Temperature = Decimal(CondSeq[2].main.temp)
    /\ \E it \in table_items : it.City = "Seattle" /\ it.Timestamp = 1
    /\ \E it \in table_items : it.City = "New York" /\ it.Timestamp = 0

\* C5: save_forecast_to_dynamodb surfaces every item failure and drops no
\* data silently: whenever it returns True every sample of the payload's
\* list has been written to the table, and if building or writing any sample
\* fails it returns False.
C5_FailureSurfaced ==
    (/\ call.op = "save_forecast_to_dynamodb"
     /\ call.payload # None /\ call.payload # EmptyDict)
    =>
        LET list == call.payload.list
        IN  /\ success =>
                 \A i \in 1..Len(list) :
                     /\ {"dt", "main", "weather"} \subseteq DOMAIN list[i]
                     /\ \E it \in table_items :
                          /\ it.City = call.city
                          /\ it.Timestamp = list[i].dt
                          /\ it.Temperature.decimal = list[i].main.temp
                          /\ it.FeelsLike.decimal = list[i].main.feels_like
                          /\ it.Humidity.decimal = list[i].main.humidity
                          /\ it.Description = list[i].weather[1].description
            /\ (\E i \in 1..Len(list) :
                    ~({"dt", "main", "weather"} \subseteq DOMAIN list[i]))
                   => ~success
            /\ call.stored < Len(list) => ~success

\* a feed with a sample that cannot be built was refused after its first
\* sample had been written
C5_Witness ==
    /\ call.op = "save_forecast_to_dynamodb"
    /\ call.payload # None /\ call.payload # EmptyDict
    /\ Len(call.payload.list) = 3
    /\ call.puts = 1 /\ call.stored = 1
    /\ ~success

\* C6: table provisioning is an idempotent bootstrap: when creation fails
\* because the table already exists (ResourceInUseException),
\* create_dynamo_table raises nothing and returns a usable handle to the
\* existing table, so provisioning twice in sequence returns a handle both
\* times; any other creation failure is fatal, is raised to the caller, and
\* aborts startup before any city is processed.
C6_IdempotentBootstrap ==
    /\ \A i \in DOMAIN create_outcome :
           LET o == create_outcome[i]
           IN  /\ o.outcome \in {"created", "ResourceInUseException"} =>
                      /\ o.table = [kind |-> "Table", name |-> "WeatherForecasts"]
                      /\ "WeatherForecasts" \in dynamo_tables
               /\ o.outcome \notin {"created", "ResourceInUseException"} =>
                      o.table = Raised
               /\ (/\ i > 1
                   /\ create_outcome[i - 1].table # Raised
                   /\ o.outcome # "AccessDeniedException")
                      => o.table = [kind |-> "Table", name |-> "WeatherForecasts"]
    /\ pc \notin {"start", "new"} =>
           /\ pc = "aborted" <=> create_outcome[1].table = Raised
           /\ pc = "aborted" =>
                  /\ trace = <<>> /\ city_i = 0
                  /\ s3_objects = {} /\ table_items = {}

\* provisioning was called twice in sequence, the second time on the table
\* the first had created, and returned the handle both times
C6_Witness ==
    /\ Len(create_outcome) = 2
    /\ create_outcome[1].outcome = "created"
    /\ create_outcome[2].outcome = "ResourceInUseException"
    /\ create_outcome[2].table = Table(table_name)
    /\ table = Table(table_name)

====
